---- MODULE Spec2Model ----
(***************************************************************************)
(* NFT lifecycle reconciliation engine of neftittelegram.                  *)
(*                                                                         *)
(*   - the optimistic view cache (NFTContext / NFTProvider)                *)
(*   - the hybrid burn service (EnhancedHybridBurnService)                 *)
(*   - the on-chain staking service (ImprovedOnchainStakingService)        *)
(*   - the stake-record reconciliation (recover / sync / record)           *)
(*                                                                         *)
(* Each subsystem has its own specification; the variables of the others   *)
(* stay at their initial value.                                            *)
(***************************************************************************)
EXTENDS Integers, Sequences, FiniteSets, TLC

VARIABLES
  \* ---- optimistic view cache ----
  allNFTs,               \* ContextNFT[] shown to the user
  backupState,           \* ContextNFT[] snapshot taken by the optimistic operations
  hasOptimisticUpdates,  \* the "dirty" flag
  now,                   \* Date.now()
  preStake,              \* observation: the view before the last optimisticStake and whether a revert followed it
  outstanding,           \* observation: per asset, optimistic mutations not yet committed or reverted (2 = two or more)
  lastMutated,           \* observation: the assets of the view named by the last outstanding optimistic mutation
  \* ---- hybrid burn service ----
  burn,                  \* per burn task: position and locals of executeSmartHybridBurn
  tokenOwner,            \* NFT contract: ownerOf per on-chain token of the burn tasks
  distributionLog,       \* table nft_cid_distribution_log: off-chain asset rows
  cidPool,               \* table nft_cid_pools
  burnTransactions,      \* table burn_transactions
  \* ---- on-chain staking service ----
  call,                  \* the stakeNFTOnChain call: position, locals and observations
  ownerOf,               \* NFT contract: owner per token
  isApprovedForAll,      \* NFT contract: wallet has approved the staking contract for all
  getApproved,           \* NFT contract: tokens individually approved for the staking contract
  tokensStaked,          \* staking contract: getStakeInfo(wallet)
  staked_nfts,           \* table staked_nfts
  runs,                  \* per run: position and locals of a recover or sync sweep
  recorded,              \* observation: per token, stake records stored by recordOnchainStakingForTracking (2 = two or more)
  \* ---- on-chain unstaking ----
  withdrawal,            \* the unstakeNFTOnChain call: position, locals and observations
  unstakedAt             \* table staked_nfts: the nft_id of the wallet's records marked as unstaked

viewVars == <<allNFTs, backupState, hasOptimisticUpdates, now, preStake, outstanding, lastMutated>>
burnVars == <<burn, tokenOwner, distributionLog, cidPool, burnTransactions>>
stakeVars == <<call, ownerOf, isApprovedForAll, getApproved, tokensStaked, staked_nfts, runs, recorded>>
unstakeVars == <<withdrawal, unstakedAt>>
vars == <<viewVars, burnVars, stakeVars, unstakeVars>>

\* Each service leaves the state of the others alone
ViewOnly  == UNCHANGED <<burnVars, stakeVars, unstakeVars>>
BurnOnly  == UNCHANGED <<viewVars, stakeVars, unstakeVars>>
StakeOnly == UNCHANGED <<viewVars, burnVars, unstakeVars>>
UnstakeOnly == UNCHANGED <<viewVars, burnVars>>

-----------------------------------------------------------------------------
(* Bounds *)

MaxClock == 5
NumBurns == 2
NumRuns == 2

-----------------------------------------------------------------------------
(* Generic helpers *)


\* Array.prototype.filter
RECURSIVE FilterSeq(_, _)
FilterSeq(s, keep) ==
  IF s = <<>> THEN <<>>
  ELSE IF Head(s).id \in keep THEN <<Head(s)>> \o FilterSeq(Tail(s), keep)
       ELSE FilterSeq(Tail(s), keep)

Ids(s) == {s[i].id : i \in 1..Len(s)}

\* { ...nft, ...updates }
Merge(nft, updates) ==
  [f \in DOMAIN nft |-> IF f \in DOMAIN updates THEN updates[f] ELSE nft[f]]

-----------------------------------------------------------------------------
(* Optimistic view cache: src/unnamed/part_004 *)

OffchainId == "n1"
OnchainId  == "onchain_1"
ResultId   == "r1"
ViewIds    == {OffchainId, OnchainId}

\* ContextNFT restricted to the lifecycle fields (store, stake status, stake
\* source, stake time). The display fields and the write-only markers
\* (claimingStatus, optimisticUpdate, lastUpdated, dailyReward) are left out:
\* no operation reads them. stakeTimestamp = 0 stands for undefined.
ContextNFT(id, status, isStaked, stakingSource, stakeTimestamp) ==
  [id |-> id, status |-> status, isStaked |-> isStaked,
   stakingSource |-> stakingSource, stakeTimestamp |-> stakeTimestamp]

\* What nftLifecycleService.loadOffchainNFTs / getOffchainNFTs can return.
OffchainRow(status, isStaked) == [id |-> OffchainId, status |-> status, isStaked |-> isStaked]
OffchainLoads ==
  { <<>>,
    <<OffchainRow("offchain", FALSE)>>,
    <<OffchainRow("offchain", TRUE)>>,
    <<OffchainRow("claimed", FALSE)>> }

\* What nftLifecycleService.loadOnchainNFTs can return; ok = FALSE is a rejected promise.
OnchainRow(isStaked) ==
  [id |-> OnchainId, isStaked |-> isStaked, stakeTimestamp |-> IF isStaked THEN 1 ELSE 0]
OnchainLoads == { <<>>, <<OnchainRow(FALSE)>>, <<OnchainRow(TRUE)>> }
Fulfilled(data) == [ok |-> TRUE, data |-> data]
Rejected == [ok |-> FALSE, data |-> <<>>]
OnchainResults == {Fulfilled(d) : d \in OnchainLoads} \cup {Rejected}
OffchainResults == {Fulfilled(d) : d \in OffchainLoads} \cup {Rejected}

\* part_004:194-206 (and 924-938): offchain rows -> context NFTs
OffchainToContext(offchainData) ==
  LET active == SelectSeq(offchainData, LAMBDA n : n.status \in {"offchain", "claiming"})
  IN [i \in 1..Len(active) |->
        ContextNFT(active[i].id, "offchain", active[i].isStaked,
                   IF active[i].isStaked THEN "offchain" ELSE "none", 0)]

\* part_004:231-253: new onchain rows -> context NFTs (first provider)
OnchainToContext(onchainData, currentNFTs) ==
  LET fresh == SelectSeq(onchainData, LAMBDA n : n.id \notin Ids(currentNFTs))
  IN [i \in 1..Len(fresh) |->
        ContextNFT(fresh[i].id, "onchain", fresh[i].isStaked,
                   IF fresh[i].isStaked THEN "onchain" ELSE "none",
                   fresh[i].stakeTimestamp)]

\* part_004:1049-1058: new onchain rows -> context NFTs (streaming provider, step 3)
OnchainToContextStep3(onchainData, currentNFTs) ==
  LET fresh == SelectSeq(onchainData, LAMBDA n : n.id \notin Ids(currentNFTs))
  IN [i \in 1..Len(fresh) |->
        ContextNFT(fresh[i].id, "onchain", fresh[i].isStaked, "onchain",
                   fresh[i].stakeTimestamp)]

NoStake == [phase |-> "none", view |-> <<>>, ids |-> {}]
NoOutstanding == [id \in ViewIds |-> 0]

ViewInit ==
  /\ allNFTs = <<>>
  /\ backupState = <<>>
  /\ hasOptimisticUpdates = FALSE
  /\ now = 1
  /\ preStake = NoStake
  /\ outstanding = NoOutstanding
  /\ lastMutated = {}

Tick == now' = now + 1

\* Every operation runs at a later Date.now() than the one before it.
Observe(op) ==
  /\ now < MaxClock
  /\ Tick
  /\ preStake' = IF op = "revertOptimisticUpdate" /\ preStake.phase = "staked"
                 THEN [preStake EXCEPT !.phase = "reverted"]
                 ELSE NoStake

\* part_004:186-283: one load, given what the two stores return
LoadCompletes(offchainData, onchainData) ==
  LET afterOff == IF Len(OffchainToContext(offchainData)) > 0
                  THEN OffchainToContext(offchainData) ELSE allNFTs
      afterOn  == IF onchainData.ok /\ Len(onchainData.data) > 0
                  THEN afterOff \o OnchainToContext(onchainData.data, afterOff)
                  ELSE afterOff
  IN /\ allNFTs' = afterOn
     /\ hasOptimisticUpdates' = FALSE
     /\ outstanding' = NoOutstanding /\ lastMutated' = {}
     /\ Observe("loadNFTData")
     /\ UNCHANGED backupState

\* part_004:175-301 loadNFTData of the first provider, wallet connected
loadNFTData ==
  \E offchainData \in OffchainLoads, onchainData \in OnchainResults :
    LoadCompletes(offchainData, onchainData)

\* What offChainStakingService.getStakedNFTs can return: rows of staked_nfts.
\* staking_source = "" stands for a row without the column value.
StakedRow(nft_id, staking_source) ==
  [nft_id |-> nft_id, staking_source |-> staking_source, staked_at |-> 1]
StakedLoads ==
  { <<>>,
    <<StakedRow(OffchainId, "offchain")>>,
    <<StakedRow(OnchainId, "onchain")>>,
    <<StakedRow("1", "")>>,
    <<StakedRow(OffchainId, "offchain"), StakedRow(OnchainId, "onchain")>> }

\* part_004:1361-1383: the id variants under which a staked row is looked up
\* ("onchain_N" -> N, staked_N; "N" -> onchain_N, staked_N)
StakedIdVariants(id) ==
  CASE id = "onchain_1" -> {"onchain_1", "1", "staked_1"}
    [] id = "1"         -> {"1", "onchain_1", "staked_1"}
    [] OTHER            -> {id}

\* stakedNFTMap.get(id): the last row registered under the id
StakedRecordFor(stakedNFTs, id) ==
  LET hits == {i \in 1..Len(stakedNFTs) : id \in StakedIdVariants(stakedNFTs[i].nft_id)}
  IN stakedNFTs[CHOOSE i \in hits : \A j \in hits : j <= i]

\* part_004:1392-1419: the functional update of syncStakingStatus
SyncedView(prevNFTs, stakedNFTs) ==
  [i \in 1..Len(prevNFTs) |->
     LET nft == prevNFTs[i]
         isStaked == \E k \in 1..Len(stakedNFTs) :
                        nft.id \in StakedIdVariants(stakedNFTs[k].nft_id)
         stakingSource ==
           IF isStaked
           THEN (IF StakedRecordFor(stakedNFTs, nft.id).staking_source # ""
                 THEN StakedRecordFor(stakedNFTs, nft.id).staking_source
                 ELSE "offchain")
           ELSE "none"
     IN IF nft.isStaked # isStaked \/ nft.stakingSource # stakingSource
        THEN [nft EXCEPT !.isStaked = isStaked,
                         !.stakingSource = stakingSource,
                         !.stakeTimestamp =
                            IF isStaked
                            THEN StakedRecordFor(stakedNFTs, nft.id).staked_at
                            ELSE 0]
        ELSE nft]

\* part_004:1333-1426 syncStakingStatus (streaming provider). staleDirty is the
\* hasOptimisticUpdates captured by the callback closure, which is not
\* re-created when the flag changes.
syncStakingStatus ==
  /\ Len(allNFTs) > 0
  /\ \E stakedNFTs \in StakedLoads, staleDirty \in BOOLEAN :
       /\ allNFTs' = IF Len(stakedNFTs) = 0 /\ staleDirty
                     THEN allNFTs
                     ELSE SyncedView(allNFTs, stakedNFTs)
       /\ Observe("syncStakingStatus")
       /\ UNCHANGED <<backupState, hasOptimisticUpdates, outstanding, lastMutated>>

\* part_004:889-1288 loadNFTData of the streaming provider, from "Starting
\* streaming NFT data load" on. staleExpired is the closure's view of
\* (!cacheExpiry || new Date() > cacheExpiry).
StreamedView(current, staleExpired, offchainData, onchain2, onchain3) ==
  LET cleared  == IF staleExpired THEN <<>> ELSE current
      afterOff == IF offchainData.ok /\ Len(OffchainToContext(offchainData.data)) > 0
                  THEN OffchainToContext(offchainData.data) ELSE cleared
      afterOn2 == IF onchain2.ok /\ Len(onchain2.data) > 0
                  THEN afterOff \o OnchainToContext(onchain2.data, afterOff)
                  ELSE afterOff
  IN IF onchain3.ok /\ Len(onchain3.data) > 0
     THEN afterOn2 \o OnchainToContextStep3(onchain3.data, afterOn2)
     ELSE afterOn2

loadNFTData2 ==
  /\ allNFTs' \in {StreamedView(allNFTs, staleExpired, offchainData, onchain2, onchain3) :
                     staleExpired \in BOOLEAN, offchainData \in OffchainResults,
                     onchain2 \in OnchainResults, onchain3 \in OnchainResults}
  /\ hasOptimisticUpdates' = FALSE
  /\ outstanding' = NoOutstanding /\ lastMutated' = {}
  /\ Observe("loadNFTData")
  /\ UNCHANGED backupState

MarkOutstanding(ids) ==
  /\ outstanding' = [id \in ViewIds |->
                       IF id \in ids /\ id \in Ids(allNFTs) /\ outstanding[id] < 2
                       THEN outstanding[id] + 1 ELSE outstanding[id]]
  /\ lastMutated' = ids \cap Ids(allNFTs)

\* part_004:304-333
optimisticStake ==
  /\ \E nftIds \in (SUBSET ViewIds) \ {{}}, stakingSource \in {"offchain", "onchain"} :
       /\ backupState' = allNFTs
       /\ hasOptimisticUpdates' = TRUE
       /\ allNFTs' = [i \in 1..Len(allNFTs) |->
                        IF allNFTs[i].id \in nftIds
                        THEN [allNFTs[i] EXCEPT !.isStaked = TRUE,
                                                !.stakingSource = stakingSource,
                                                !.stakeTimestamp = now]
                        ELSE allNFTs[i]]
       /\ MarkOutstanding(nftIds)
       /\ now < MaxClock
       /\ Tick
       /\ preStake' = [phase |-> "staked", view |-> allNFTs, ids |-> nftIds]

\* part_004:335-345
optimisticUnstake ==
  \E nftIds \in (SUBSET ViewIds) \ {{}} :
    /\ backupState' = allNFTs
    /\ hasOptimisticUpdates' = TRUE
    /\ allNFTs' = [i \in 1..Len(allNFTs) |->
                     IF allNFTs[i].id \in nftIds
                     THEN [allNFTs[i] EXCEPT !.isStaked = FALSE,
                                             !.stakingSource = "none",
                                             !.stakeTimestamp = 0]
                     ELSE allNFTs[i]]
    /\ MarkOutstanding(nftIds)
    /\ Observe("optimisticUnstake")

\* part_004:347-361
optimisticClaimStart ==
  \E nftId \in ViewIds :
    /\ backupState' = allNFTs
    /\ allNFTs' = [i \in 1..Len(allNFTs) |->
                     IF allNFTs[i].id = nftId
                     THEN [allNFTs[i] EXCEPT !.status = "offchain"]
                     ELSE allNFTs[i]]
    /\ MarkOutstanding({nftId})
    /\ Observe("optimisticClaimStart")
    /\ UNCHANGED hasOptimisticUpdates

\* part_004:363-369
optimisticClaim ==
  \E nftId \in ViewIds :
    /\ allNFTs' = FilterSeq(allNFTs, Ids(allNFTs) \ {nftId})
    /\ MarkOutstanding({nftId})
    /\ Observe("optimisticClaim")
    /\ UNCHANGED <<backupState, hasOptimisticUpdates>>

\* The optional result NFT a burn hands to optimisticBurn: <<>> is "not given"
NewNFTs == {<<>>, <<ContextNFT(ResultId, "offchain", FALSE, "none", 0)>>}

\* part_004:371-382 (and 1492-1507)
optimisticBurn ==
  \E nftIds \in (SUBSET ViewIds) \ {{}}, newNFT \in NewNFTs :
    LET updated == FilterSeq(allNFTs, Ids(allNFTs) \ nftIds)
    IN /\ Ids(newNFT) \cap Ids(allNFTs) = {}
       /\ backupState' = allNFTs
       /\ allNFTs' = updated \o newNFT
       /\ MarkOutstanding(nftIds)
       /\ Observe("optimisticBurn")
       /\ UNCHANGED hasOptimisticUpdates

\* Partial<ContextNFT> values passed to the generic update operations
Updates ==
  { [isStaked |-> TRUE, stakingSource |-> "offchain"],
    [isStaked |-> TRUE, stakingSource |-> "onchain"],
    [isStaked |-> FALSE, stakingSource |-> "none"],
    [stakeTimestamp |-> 0] }

\* part_004:384-394
updateNFTOptimistically ==
  /\ \E nftId \in ViewIds, updates \in Updates :
       /\ backupState' = allNFTs
       /\ hasOptimisticUpdates' = TRUE
       /\ allNFTs' = [i \in 1..Len(allNFTs) |->
                        IF allNFTs[i].id = nftId
                        THEN Merge(allNFTs[i], updates)
                        ELSE allNFTs[i]]
       /\ MarkOutstanding({nftId})
       /\ Observe("updateNFTOptimistically")

\* part_004:396-407; updates.find takes the first entry for an id
batchUpdateNFTs ==
  /\ \E ids \in (SUBSET ViewIds) \ {{}}, changes \in Updates :
       /\ backupState' = allNFTs
       /\ hasOptimisticUpdates' = TRUE
       /\ allNFTs' = [i \in 1..Len(allNFTs) |->
                        IF allNFTs[i].id \in ids
                        THEN Merge(allNFTs[i], changes)
                        ELSE allNFTs[i]]
       /\ MarkOutstanding(ids)
       /\ Observe("batchUpdateNFTs")

\* A revert that drops the snapshot without restoring the view
revertOptimisticUpdate_KeepsView ==
  /\ backupState' = <<>>
  /\ hasOptimisticUpdates' = FALSE
  /\ outstanding' = NoOutstanding /\ lastMutated' = {}
  /\ Observe("revertOptimisticUpdate")
  /\ UNCHANGED allNFTs
\* part_004:409-416
revertOptimisticUpdate ==
  /\ IF Len(backupState) > 0
     THEN /\ allNFTs' = backupState
          /\ backupState' = <<>>
          /\ hasOptimisticUpdates' = FALSE
          /\ outstanding' = NoOutstanding /\ lastMutated' = {}
     ELSE UNCHANGED <<allNFTs, backupState, hasOptimisticUpdates, outstanding, lastMutated>>
  /\ Observe("revertOptimisticUpdate")

\* part_004:418-422
clearOptimisticUpdates ==
  /\ backupState' = <<>>
  /\ hasOptimisticUpdates' = FALSE
  /\ outstanding' = NoOutstanding /\ lastMutated' = {}
  /\ Observe("clearOptimisticUpdates")
  /\ UNCHANGED allNFTs

ViewNext ==
  \/ loadNFTData /\ ViewOnly
  \/ loadNFTData2 /\ ViewOnly
  \/ syncStakingStatus /\ ViewOnly
  \/ optimisticStake /\ ViewOnly
  \/ optimisticUnstake /\ ViewOnly
  \/ optimisticClaimStart /\ ViewOnly
  \/ optimisticClaim /\ ViewOnly
  \/ optimisticBurn /\ ViewOnly
  \/ updateNFTOptimistically /\ ViewOnly
  \/ batchUpdateNFTs /\ ViewOnly
  \/ revertOptimisticUpdate /\ ViewOnly
  \/ clearOptimisticUpdates /\ ViewOnly


-----------------------------------------------------------------------------
(* Hybrid burn service: src/unnamed/part_005, EnhancedHybridBurnService *)

BurnTasks == 1..NumBurns

\* optimizedCIDPoolBurnService.getBurnRules(): the rule of the specification
BurnRules ==
  << [minRarity |-> "common", requiredAmount |-> 3, resultingRarity |-> "rare"] >>

\* NFTWithStatus handed to task p; the assets of different tasks are different
NFTWithStatus(p, k, status, rarity, isStaked) ==
  [id |-> <<p, k>>, status |-> status, rarity |-> rarity, isStaked |-> isStaked]

OffNFT(p, k) == NFTWithStatus(p, k, "offchain", "common", FALSE)
OnNFT(p, k)  == NFTWithStatus(p, k, "onchain", "common", FALSE)

\* The selections a caller passes to executeSmartHybridBurn
Selections(p) ==
  { <<OffNFT(p, 1), OffNFT(p, 2), OnNFT(p, 3)>>,
    <<OnNFT(p, 3), OnNFT(p, 4), OnNFT(p, 5)>>,
    <<OffNFT(p, 1), OnNFT(p, 3)>>,
    \* three common assets, one of them a staked off-chain asset, and one
    \* more asset of another rarity
    <<NFTWithStatus(p, 1, "offchain", "common", TRUE), OffNFT(p, 2), OnNFT(p, 3),
      NFTWithStatus(p, 4, "onchain", "rare", FALSE)>>,
    \* a staked on-chain asset after an unstaked one
    <<OffNFT(p, 1), OnNFT(p, 3), NFTWithStatus(p, 4, "onchain", "common", TRUE)>> }

OffchainAssetIds == {<<p, k>> : p \in BurnTasks, k \in {1, 2}}
OnchainTokenIds  == {<<p, k>> : p \in BurnTasks, k \in {3, 4, 5}}

\* The pool holds exactly one undistributed 'rare' entry per burn task
PoolIds == 1..NumBurns

\* and one undistributed entry of another rarity
OtherPoolId == NumBurns + 1
AllPoolIds == PoolIds \cup {OtherPoolId}

\* part_005:2417-2438: rarities in order of first appearance (Object.values)
RECURSIVE RarityOrder(_)
RarityOrder(nfts) ==
  IF nfts = <<>> THEN <<>>
  ELSE LET rest == RarityOrder(SelectSeq(Tail(nfts), LAMBDA n : n.rarity # Head(nfts).rarity))
       IN <<Head(nfts).rarity>> \o rest

GroupCount(nfts, rarity) == Len(SelectSeq(nfts, LAMBDA n : n.rarity = rarity))

\* part_005:2458-2461: burnRules.find for one rarity group; 0 when none
RuleFor(rarity, totalCount) ==
  LET hits == {i \in 1..Len(BurnRules) :
                 /\ BurnRules[i].minRarity = rarity
                 /\ BurnRules[i].requiredAmount = totalCount}
  IN IF hits = {} THEN 0 ELSE CHOOSE i \in hits : \A j \in hits : i <= j

\* part_005:2457-2468: the first group, in group order, that matches a rule
RECURSIVE FirstApplicableRule(_, _)
FirstApplicableRule(rarities, nfts) ==
  IF rarities = <<>> THEN 0
  ELSE IF RuleFor(Head(rarities), GroupCount(nfts, Head(rarities))) # 0
       THEN RuleFor(Head(rarities), GroupCount(nfts, Head(rarities)))
       ELSE FirstApplicableRule(Tail(rarities), nfts)

\* part_005:2441-2449
BurnStrategy(nfts) ==
  LET hasOffchain == \E i \in 1..Len(nfts) : nfts[i].status = "offchain"
      hasOnchain  == \E i \in 1..Len(nfts) : nfts[i].status = "onchain"
  IN IF hasOffchain /\ hasOnchain THEN "mixed"
     ELSE IF hasOnchain /\ ~hasOffchain THEN "pure_onchain"
     ELSE "pure_offchain"

\* part_005:2408-2483
analyzeNFTSelection(nfts) ==
  LET rule == FirstApplicableRule(RarityOrder(nfts), nfts)
  IN [burnStrategy |-> BurnStrategy(nfts), isValid |-> rule # 0, applicableRule |-> rule]

OnchainOf(nfts)  == SelectSeq(nfts, LAMBDA n : n.status = "onchain")
OffchainOf(nfts) == SelectSeq(nfts, LAMBDA n : n.status = "offchain")

\* part_005:2559-2562 and 2566-2569: what executeSmartHybridBurn returns
BurnSucceeded(resultNFT) == [success |-> TRUE, resultNFT |-> resultNFT]
BurnError(error) == [success |-> FALSE, error |-> error]

\* poolAttempts counts the selects of getResultNFTFromOffchainPool and
\* errorLogged notes an error that was only written to the console.
IdleBurn ==
  [pc |-> "idle", nfts |-> <<>>, burnStrategy |-> "none", resultRarity |-> "none",
   onchainBurnHashes |-> <<>>, cidPoolNFT |-> 0, success |-> FALSE,
   transferFailed |-> FALSE, result |-> BurnError("none"),
   poolAttempts |-> 0, errorLogged |-> FALSE]

BurnInit ==
  /\ burn = [p \in BurnTasks |-> IdleBurn]
  /\ tokenOwner = [t \in OnchainTokenIds |-> "user"]
  /\ distributionLog = {[nft_id |-> id, wallet_address |-> id[1]] : id \in OffchainAssetIds}
  /\ cidPool = [c \in AllPoolIds |->
                  [rarity |-> IF c \in PoolIds THEN "rare" ELSE "common",
                   is_distributed |-> FALSE, distributed_to_wallet |-> 0]]
  /\ burnTransactions = {}

\* A mixed burn that goes from the transfers straight to the pool
AfterOnchainBurns_SkipsOffchain(b) == "poolSelect"
\* Where the burn goes once burnOnchainNFTs has returned, part_005:2513-2533
AfterOnchainBurns(b) ==
  IF b.burnStrategy = "mixed" /\ Len(OffchainOf(b.nfts)) > 0
  THEN "burnOffchain" ELSE "poolSelect"

\* The catch block of executeSmartHybridBurn, part_005:2564-2570
BurnFailed(b, error) ==
  [b EXCEPT !.pc = "done", !.success = FALSE, !.result = BurnError(error)]

\* A burnOnchainNFTs that logs a failed transfer and carries on
TransferFailed_Swallowed(b) ==
  [b EXCEPT !.transferFailed = TRUE, !.pc = AfterOnchainBurns(b)]
\* part_005:2617-2620: a failed transfer is rethrown and ends the burn
TransferFailed(b) == [BurnFailed(b, "transfer failed") EXCEPT !.transferFailed = TRUE]

\* part_005:2488-2538 up to the first await of the chosen strategy. The
\* pure_offchain strategy is delegated to another service.
executeSmartHybridBurn(p) ==
  /\ burn[p].pc = "idle"
  /\ \E nfts \in Selections(p) :
       LET analysis == analyzeNFTSelection(nfts)
           started  == [burn[p] EXCEPT
                          !.nfts = nfts,
                          !.burnStrategy = analysis.burnStrategy]
       IN burn' = [burn EXCEPT ![p] =
            IF ~analysis.isValid
            THEN BurnFailed(started, "Invalid NFT combination for burning")
            ELSE [started EXCEPT
                    !.resultRarity = BurnRules[analysis.applicableRule].resultingRarity,
                    !.pc = IF Len(OnchainOf(nfts)) > 0 THEN "burnOnchain"
                           ELSE AfterOnchainBurns(started)]]
  /\ UNCHANGED <<tokenOwner, distributionLog, cidPool, burnTransactions>>

\* part_005:2576-2624: the loop of burnOnchainNFTs. The tokens belong to the
\* calling wallet alone, so the transfers of one call are taken in one step:
\* k of them go through before the loop ends, either because every token is
\* burned, or because token k+1 is staked (the check precedes its transfer),
\* or because the transfer of token k+1 fails. A throw loses burnHashes.
FirstStaked(onchain) ==
  LET staked == {i \in 1..Len(onchain) : onchain[i].isStaked}
  IN IF staked = {} THEN Len(onchain) + 1
     ELSE CHOOSE i \in staked : \A j \in staked : i <= j

burnOnchainNFTs(p) ==
  /\ burn[p].pc = "burnOnchain"
  /\ LET b       == burn[p]
         onchain == OnchainOf(b.nfts)
     IN \E k \in 0..(FirstStaked(onchain) - 1) :
          /\ \A i \in 1..k : tokenOwner[onchain[i].id] = "user"
          /\ tokenOwner' = [t \in OnchainTokenIds |->
                              IF \E i \in 1..k : onchain[i].id = t
                              THEN "burn" ELSE tokenOwner[t]]
          /\ burn' = [burn EXCEPT ![p] =
                IF k = Len(onchain)
                THEN [b EXCEPT !.onchainBurnHashes = [i \in 1..k |-> onchain[i].id],
                               !.pc = AfterOnchainBurns(b)]
                ELSE IF k = FirstStaked(onchain) - 1
                THEN BurnFailed(b, "NFT is currently staked")
                ELSE TransferFailed(b)]
  /\ UNCHANGED <<distributionLog, cidPool, burnTransactions>>

\* part_005:2629-2650
burnOffchainNFTsInDatabase(p) ==
  /\ burn[p].pc = "burnOffchain"
  /\ \E error \in BOOLEAN :
       IF error
       THEN /\ burn' = [burn EXCEPT ![p] = BurnFailed(@, "Failed to burn offchain NFTs")]
            /\ UNCHANGED distributionLog
       ELSE /\ distributionLog' =
                 {row \in distributionLog :
                    ~(row.wallet_address = p /\ row.nft_id \in Ids(OffchainOf(burn[p].nfts)))}
            /\ burn' = [burn EXCEPT ![p].pc = "poolSelect"]
  /\ UNCHANGED <<tokenOwner, cidPool, burnTransactions>>

\* part_005:2663-2673: select ... eq(rarity) eq(is_distributed, false) limit(1) single()
poolSelect(p) ==
  /\ burn[p].pc = "poolSelect"
  /\ LET available == {c \in AllPoolIds : /\ cidPool[c].rarity = burn[p].resultRarity
                                          /\ ~cidPool[c].is_distributed}
         tried == [burn[p] EXCEPT !.poolAttempts = @ + 1]
     IN \/ /\ available # {}
           /\ \E c \in available :
                burn' = [burn EXCEPT ![p] =
                           [tried EXCEPT !.cidPoolNFT = c, !.pc = "poolInsert"]]
        \/ \* poolError, or no row
           burn' = [burn EXCEPT ![p] = BurnFailed(tried, "No available NFT found in CID pool")]
  /\ UNCHANGED <<tokenOwner, distributionLog, cidPool, burnTransactions>>

\* part_005:2694-2716: sync rpc (its error is ignored) and the insert of the result NFT
poolInsert(p) ==
  /\ burn[p].pc = "poolInsert"
  /\ \E insertError \in BOOLEAN :
       IF insertError
       THEN /\ burn' = [burn EXCEPT ![p] = BurnFailed(@, "Failed to add result NFT")]
            /\ UNCHANGED distributionLog
       ELSE /\ distributionLog' = distributionLog \cup
                 {[nft_id |-> <<p, 0>>, wallet_address |-> p]}
            /\ burn' = [burn EXCEPT ![p].pc = "poolUpdate"]
  /\ UNCHANGED <<tokenOwner, cidPool, burnTransactions>>

\* part_005:2718-2733: update ... eq(id); an update error is only logged
poolUpdate(p) ==
  /\ burn[p].pc = "poolUpdate"
  /\ \E updateError \in BOOLEAN :
       /\ cidPool' = IF updateError THEN cidPool
                     ELSE [cidPool EXCEPT ![burn[p].cidPoolNFT] =
                             [@ EXCEPT !.is_distributed = TRUE,
                                       !.distributed_to_wallet = p]]
       /\ burn' = [burn EXCEPT ![p].pc = "logTransaction",
                               ![p].errorLogged = @ \/ updateError]
  /\ UNCHANGED <<tokenOwner, distributionLog, burnTransactions>>

\* part_005:2540-2562 with logHybridBurnTransaction, part_005:2752-2790
logHybridBurnTransaction(p) ==
  /\ burn[p].pc = "logTransaction"
  /\ \E error \in BOOLEAN :
       /\ burnTransactions' =
            IF error THEN burnTransactions
            ELSE burnTransactions \cup
                   {[wallet_address |-> p,
                     burn_type |-> IF burn[p].burnStrategy = "pure_onchain"
                                   THEN "onchain" ELSE "hybrid",
                     result_rarity |-> burn[p].resultRarity]}
       /\ burn' = [burn EXCEPT ![p].pc = "done", ![p].success = TRUE,
                               ![p].result = BurnSucceeded(<<p, 0>>),
                               ![p].errorLogged = @ \/ error]
  /\ UNCHANGED <<tokenOwner, distributionLog, cidPool>>

BurnNext ==
  \E p \in BurnTasks :
    \/ executeSmartHybridBurn(p) /\ BurnOnly
    \/ burnOnchainNFTs(p) /\ BurnOnly
    \/ burnOffchainNFTsInDatabase(p) /\ BurnOnly
    \/ poolSelect(p) /\ BurnOnly
    \/ poolInsert(p) /\ BurnOnly
    \/ poolUpdate(p) /\ BurnOnly
    \/ logHybridBurnTransaction(p) /\ BurnOnly

-----------------------------------------------------------------------------
(* On-chain staking service: src/unnamed/part_005, ImprovedOnchainStakingService *)

StakeTokens == {1, 2}
WalletAddress == "wallet"
MaxTxRetries == 2        \* part_005:797
MaxApprovalRetries == 3  \* part_005:157

\* An asset id as the text before its first digit run and that digit run
NftId(prefix, digits) == [prefix |-> prefix, digits |-> digits]

\* part_005:1106-1112: the first run of digits of the id
extractTokenId(nftId) == nftId.digits

\* nftId.replace('onchain_', ''), part_005:654, 1740, 2042
StripOnchainPrefix(nftId) ==
  IF nftId.prefix = "onchain_" THEN NftId("", nftId.digits) ELSE nftId

\* `onchain_${tokenId}`, part_005:1364, 1760, 1810
OnchainNftId(tokenId) == NftId("onchain_", tokenId)

\* The ids under which a caller names on-chain token 1
StakeCallIds == {NftId("onchain_", 1), NftId("", 1)}

\* The rarity attribute of the metadata behind each token's tokenURI
TokenMetadataRarity == [t \in StakeTokens |-> IF t = 1 THEN "rare" ELSE "common"]

\* part_005:1117-1138
normalizeRarity(rarity) ==
  CASE rarity = "" -> "Common"
    [] rarity = "common" -> "Common"
    [] rarity = "rare" -> "Rare"
    [] rarity = "legendary" -> "Legendary"
    [] rarity = "epic" -> "Legendary"
    [] OTHER -> rarity

\* part_005:1202-1344: the rarity of the resolved metadata, 'Common' when the
\* tokenURI read or the fetch fails
fetchNFTMetadataFromBlockchain(tokenId, resolved) ==
  IF resolved THEN normalizeRarity(TokenMetadataRarity[tokenId]) ELSE "Common"

TxHash(tag, at) == [tag |-> tag, at |-> at]
NoTx == TxHash("none", 0)

StakeRecord(nftId, rarity, transactionHash) ==
  [wallet_address |-> WalletAddress, nft_id |-> nftId, nft_rarity |-> rarity,
   staking_source |-> "onchain", transaction_hash |-> transactionHash]

\* EnhancedStakingService.stakeNFT: an upsert on (wallet, asset id, source)
stakeNFT(table, record) ==
  {row \in table : ~(/\ row.wallet_address = record.wallet_address
                     /\ row.nft_id = record.nft_id
                     /\ row.staking_source = record.staking_source)}
    \cup {record}

\* A recordOnchainStakingForTracking that passes the caller's id through
recordOnchainStakingForTracking_RawId(table, nftId, transactionHash, resolved, stored) ==
  IF stored
  THEN stakeNFT(table, StakeRecord(nftId,
                  fetchNFTMetadataFromBlockchain(extractTokenId(nftId), resolved),
                  transactionHash))
  ELSE table
\* part_005:1350-1419: the table after the call; a failure to store is reported
\* to the caller and changes nothing
recordOnchainStakingForTracking(table, nftId, transactionHash, resolved, stored) ==
  IF stored
  THEN stakeNFT(table, StakeRecord(OnchainNftId(extractTokenId(nftId)),
                  fetchNFTMetadataFromBlockchain(extractTokenId(nftId), resolved),
                  transactionHash))
  ELSE table

\* The stake records of one on-chain token of the wallet
StakeRecordsOf(tokenId) ==
  {row \in staked_nfts : /\ row.wallet_address = WalletAddress
                         /\ extractTokenId(row.nft_id) = tokenId
                         /\ row.staking_source = "onchain"}

IdleCall ==
  [pc |-> "idle", nftId |-> NftId("", 0), tokenId |-> 0, attempt |-> 0,
   approvalAttempt |-> 0, approvalCaller |-> "none",
   transactionHash |-> NoTx, success |-> FALSE, stakingSource |-> "none",
   \* observations
   ownedAtStart |-> FALSE, unapprovedAtStart |-> FALSE, approvalReturned |-> FALSE,
   readApprovedForAll |-> "unread", readGetApproved |-> "unread",
   approvalSent |-> FALSE, stakeSubmitted |-> FALSE, stakeMined |-> FALSE,
   decodeError |-> FALSE, sawStakingOwner |-> FALSE,
   receiptStatus |-> "none", allCallsOk |-> TRUE,
   lastOwnerRead |-> "unread", stakeSentUnowned |-> FALSE,
   userDenied |-> FALSE, requestAfterDenial |-> FALSE,
   freshRead |-> FALSE, sentUnread |-> FALSE]

\* stakeInfo notes how the run's getStakeInfo read went and foundNone that the
\* run returned because it found no staked NFTs
IdleRun ==
  [pc |-> "idle", kind |-> "none", stakedNFTs |-> <<>>, existing |-> {},
   stakeInfo |-> "unread", foundNone |-> FALSE]

Runs == 1..NumRuns

StakeInit ==
  /\ call = IdleCall
  /\ ownerOf = [t \in StakeTokens |-> "wallet"]
  /\ isApprovedForAll = FALSE
  /\ getApproved = {}
  /\ tokensStaked = {}
  /\ staked_nfts = {}
  /\ runs = [r \in Runs |-> IdleRun]
  /\ recorded = [t \in StakeTokens |-> 0]

\* The wallet's own dealings with the contracts before the call
walletActivity ==
  /\ call.pc = "idle"
  /\ \E owner \in {"wallet", "staking", "other"}, forAll \in BOOLEAN,
        single \in BOOLEAN, byWallet \in BOOLEAN :
       /\ ownerOf' = [ownerOf EXCEPT ![1] = owner]
       /\ isApprovedForAll' = forAll
       /\ getApproved' = IF single /\ owner = "wallet" THEN {1} ELSE {}
       /\ tokensStaked' = IF owner = "staking" /\ byWallet THEN {1} ELSE {}
  /\ UNCHANGED <<call, staked_nfts, runs, recorded>>

\* The catch block of stakeNFTOnChain, part_005:1048-1078
Failed(c) == [c EXCEPT !.pc = "done", !.success = FALSE]

\* A catch block that starts another attempt whatever the count
TxError_NoBound(c) == [c EXCEPT !.attempt = @ + 1, !.pc = "preTransactionOwnership"]
\* part_005:937-948: the catch block of one transaction attempt
TxError(c) ==
  IF c.attempt = MaxTxRetries THEN Failed(c)
  ELSE [c EXCEPT !.attempt = @ + 1, !.pc = "preTransactionOwnership"]

\* checkAndHandleApproval returns true, part_005:706-711
ApprovalReturnsTrue(c) == [c EXCEPT !.approvalReturned = TRUE, !.pc = "validateStakingRequirements"]

Noted(c, ok) == [c EXCEPT !.allCallsOk = @ /\ ok]

\* Observation: what the latest ownerOf read that went through has returned
\* and that no transaction has been handed over since (freshRead)
OwnerRead(c, ok) ==
  IF ok THEN [c EXCEPT !.lastOwnerRead = ownerOf[c.tokenId], !.freshRead = TRUE] ELSE c

\* Observation: the wallet is asked for a signature and answers with sent
Requested(c, sent) ==
  [c EXCEPT !.requestAfterDenial = @ \/ c.userDenied,
            !.userDenied = @ \/ sent = "User denied"]

\* Observation: a stake transaction is handed to the wallet. Unless the user
\* turns it down the transaction may have gone out, whatever the send returns.
StakeRequested(c, sent) ==
  [Requested(c, sent) EXCEPT !.stakeSentUnowned = @ \/ c.lastOwnerRead # "wallet",
                             !.sentUnread = @ \/ ~c.freshRead,
                             !.freshRead = @ /\ sent = "User denied"]

\* part_005:649-659
stakeNFTOnChain ==
  /\ call.pc = "idle"
  /\ \E nftId \in StakeCallIds :
       LET tokenId == StripOnchainPrefix(nftId).digits
       IN call' = [call EXCEPT
                     !.pc = "checkAlreadyStaked", !.nftId = nftId, !.tokenId = tokenId,
                     !.ownedAtStart = ownerOf[tokenId] = "wallet" /\ tokenId \notin tokensStaked,
                     !.unapprovedAtStart = ~isApprovedForAll /\ tokenId \notin getApproved]
  /\ UNCHANGED <<ownerOf, isApprovedForAll, getApproved, tokensStaked, staked_nfts, runs, recorded>>

\* part_005:661-681
checkAlreadyStaked ==
  /\ call.pc = "checkAlreadyStaked"
  /\ \E ok \in BOOLEAN :
       call' = IF ok /\ call.tokenId \in tokensStaked
               THEN Failed(call)
               ELSE [Noted(call, ok) EXCEPT !.pc = "verifyOwnership"]
  /\ UNCHANGED <<ownerOf, isApprovedForAll, getApproved, tokensStaked, staked_nfts, runs, recorded>>

\* part_005:683-702
verifyOwnership ==
  /\ call.pc = "verifyOwnership"
  /\ \E ok \in BOOLEAN :
       call' = IF ok /\ ownerOf[call.tokenId] = "wallet"
               THEN [OwnerRead(call, ok) EXCEPT !.pc = "approvalConnectivity"]
               ELSE Failed(Noted(OwnerRead(call, ok), ok))
  /\ UNCHANGED <<ownerOf, isApprovedForAll, getApproved, tokensStaked, staked_nfts, runs, recorded>>

\* checkAndHandleApproval, part_005:156-183
approvalConnectivity ==
  /\ call.pc = "approvalConnectivity"
  /\ \E ok \in BOOLEAN :
       call' = IF ok /\ ownerOf[call.tokenId] = "wallet"
               THEN [OwnerRead(call, ok) EXCEPT !.pc = "approvalReadAll", !.approvalAttempt = 0]
               ELSE Failed(Noted(OwnerRead(call, ok), ok))
  /\ UNCHANGED <<ownerOf, isApprovedForAll, getApproved, tokensStaked, staked_nfts, runs, recorded>>

\* checkAndHandleApproval, part_005:185-209; a read that fails with an
\* 'Internal JSON-RPC error' makes the function return true
approvalReadAll ==
  /\ call.pc = "approvalReadAll"
  /\ \E read \in {"ok", "error", "Internal JSON-RPC error"} :
       call' =
         IF read = "ok"
         THEN LET c == [call EXCEPT !.readApprovedForAll =
                          IF isApprovedForAll THEN "approved" ELSE "notApproved"]
              IN IF isApprovedForAll THEN ApprovalReturnsTrue(c)
                 ELSE [c EXCEPT !.pc = "approvalReadOne"]
         ELSE IF read = "Internal JSON-RPC error"
         THEN ApprovalReturnsTrue(Noted(call, FALSE))
         ELSE [Noted(call, FALSE) EXCEPT !.pc = "approvalReadOne"]
  /\ UNCHANGED <<ownerOf, isApprovedForAll, getApproved, tokensStaked, staked_nfts, runs, recorded>>

\* checkAndHandleApproval, part_005:211-246. The local isApprovedForAll is
\* false here: a true read has returned at line 198.
approvalReadOne ==
  /\ call.pc = "approvalReadOne"
  /\ \E ok \in BOOLEAN :
       LET localApprovedForAll == FALSE
           isIndividuallyApproved == ok /\ call.tokenId \in getApproved
           c == IF ok
                THEN [call EXCEPT !.readGetApproved =
                        IF isIndividuallyApproved THEN "approved" ELSE "notApproved"]
                ELSE Noted(call, FALSE)
       IN call' =
            IF isIndividuallyApproved THEN ApprovalReturnsTrue(c)
            ELSE IF ~localApprovedForAll /\ ~isIndividuallyApproved
            THEN ApprovalReturnsTrue(c)                               \* line 228-237
            ELSE [c EXCEPT !.pc = "performAutomaticApproval",         \* line 242
                           !.approvalCaller = "checkAndHandleApproval"]
  /\ UNCHANGED <<ownerOf, isApprovedForAll, getApproved, tokensStaked, staked_nfts, runs, recorded>>

\* part_005:544-644 with skipApprovalCheck: the stakingToken, ownerOf and
\* getStakeInfo reads
validateStakingRequirements ==
  /\ call.pc = "validateStakingRequirements"
  /\ \E config \in {"ok", "error", "Internal JSON-RPC error"},
        okOwner \in BOOLEAN, okInfo \in BOOLEAN :
       LET c == Noted(OwnerRead(call, config # "error" /\ okOwner),
                      config = "ok" /\ okOwner /\ okInfo)
       IN call' =
            IF \/ config = "error"
               \/ ~okOwner
               \/ ownerOf[call.tokenId] # "wallet"
               \/ (okInfo /\ call.tokenId \in tokensStaked)
            THEN Failed(c)
            ELSE [c EXCEPT !.pc = "validateContractState"]
  /\ UNCHANGED <<ownerOf, isApprovedForAll, getApproved, tokensStaked, staked_nfts, runs, recorded>>

\* part_005:448-488 and the gas estimation of part_005:719-797, every failure
\* of which has a fallback
validateContractState ==
  /\ call.pc = "validateContractState"
  /\ \E ok \in BOOLEAN :
       call' = IF ok
               THEN [call EXCEPT !.pc = "preTransactionOwnership", !.attempt = 1]
               ELSE Failed(Noted(call, FALSE))
  /\ UNCHANGED <<ownerOf, isApprovedForAll, getApproved, tokensStaked, staked_nfts, runs, recorded>>

\* A pre-transaction check that reads the owner and goes on whoever it is
preTransactionOwnership_AnyOwner ==
  /\ call.pc = "preTransactionOwnership"
  /\ call' = [OwnerRead(call, TRUE) EXCEPT !.pc = "preTransactionApproval"]
  /\ UNCHANGED <<ownerOf, isApprovedForAll, getApproved, tokensStaked, staked_nfts, runs, recorded>>
\* part_005:799-818
preTransactionOwnership ==
  /\ call.pc = "preTransactionOwnership"
  /\ \E ok \in BOOLEAN :
       call' =
         IF ok /\ ownerOf[call.tokenId] = "wallet"
         THEN [OwnerRead(call, ok) EXCEPT !.pc = "preTransactionApproval"]
         ELSE TxError([Noted(OwnerRead(call, ok), ok) EXCEPT !.sawStakingOwner =
                         @ \/ (ok /\ call.decodeError /\ ownerOf[call.tokenId] = "staking")])
  /\ UNCHANGED <<ownerOf, isApprovedForAll, getApproved, tokensStaked, staked_nfts, runs, recorded>>

\* A pre-transaction check that goes on to the stake without an approval
preTransactionApproval_NoApproval ==
  /\ call.pc = "preTransactionApproval"
  /\ call' = [call EXCEPT !.pc = "sendRawTransaction"]
  /\ UNCHANGED <<ownerOf, isApprovedForAll, getApproved, tokensStaked, staked_nfts, runs, recorded>>
\* part_005:820-843
preTransactionApproval ==
  /\ call.pc = "preTransactionApproval"
  /\ \E okAll \in BOOLEAN, okOne \in BOOLEAN :
       call' =
         IF ~okAll THEN TxError(Noted(call, FALSE))
         ELSE IF isApprovedForAll THEN [call EXCEPT !.pc = "sendRawTransaction"]
         ELSE IF ~okOne THEN TxError(Noted(call, FALSE))
         ELSE IF call.tokenId \in getApproved THEN [call EXCEPT !.pc = "sendRawTransaction"]
         ELSE [call EXCEPT !.pc = "performAutomaticApproval",
                           !.approvalCaller = "preTransaction"]
  /\ UNCHANGED <<ownerOf, isApprovedForAll, getApproved, tokensStaked, staked_nfts, runs, recorded>>

\* What the caller of performAutomaticApproval does with its result:
\* part_005:243-252 and part_005:835-839
ApprovalResult(c, approved) ==
  IF c.approvalCaller = "preTransaction"
  THEN IF approved THEN [c EXCEPT !.pc = "sendRawTransaction"] ELSE TxError(c)
  ELSE IF approved THEN ApprovalReturnsTrue(c)
  ELSE IF c.approvalAttempt + 1 < MaxApprovalRetries
  THEN [c EXCEPT !.approvalAttempt = @ + 1, !.pc = "approvalReadAll"]
  ELSE Failed(c)

\* part_005:284-303 and 324-340: the setApprovalForAll send
performAutomaticApproval ==
  /\ call.pc = "performAutomaticApproval"
  /\ \E sent \in {"mined", "User denied", "error"} :
       IF sent = "mined"
       THEN /\ isApprovedForAll' = TRUE
            /\ call' = [Requested(call, sent) EXCEPT
                          !.approvalSent = TRUE, !.pc = "verifyAutomaticApproval"]
       ELSE /\ call' = ApprovalResult(Noted(Requested(call, sent), FALSE), FALSE)
            /\ UNCHANGED isApprovedForAll
  /\ UNCHANGED <<ownerOf, getApproved, tokensStaked, staked_nfts, runs, recorded>>

\* part_005:305-322: the re-read of isApprovedForAll
verifyAutomaticApproval ==
  /\ call.pc = "verifyAutomaticApproval"
  /\ \E ok \in BOOLEAN :
       call' = ApprovalResult(
                 IF ok /\ call.approvalCaller = "checkAndHandleApproval"
                 THEN [call EXCEPT !.readApprovedForAll =
                         IF isApprovedForAll THEN "approved" ELSE "notApproved"]
                 ELSE Noted(call, ok),
                 ok /\ isApprovedForAll)
  /\ UNCHANGED <<ownerOf, isApprovedForAll, getApproved, tokensStaked, staked_nfts, runs, recorded>>

\* The staking contract's stake([tokenId]) goes through
CanStake(tokenId) ==
  /\ ownerOf[tokenId] = "wallet"
  /\ isApprovedForAll \/ tokenId \in getApproved

\* The effect of a mined stake([tokenId])
StakeMined(tokenId) ==
  /\ ownerOf' = [ownerOf EXCEPT ![tokenId] = "staking"]
  /\ tokensStaked' = tokensStaked \cup {tokenId}

\* part_005:845-865: the raw send; every failure falls back to the typed send
sendRawTransaction ==
  /\ call.pc = "sendRawTransaction"
  /\ \E sent \in {"mined", "User denied", "error"} :
       IF sent = "mined" /\ CanStake(call.tokenId)
       THEN /\ StakeMined(call.tokenId)
            /\ call' = [StakeRequested(call, sent) EXCEPT
                                    !.stakeSubmitted = TRUE, !.stakeMined = TRUE,
                                    !.transactionHash = TxHash("stake", 0),
                                    !.pc = "waitForTransactionReceiptSafe"]
       ELSE /\ call' = [Noted(StakeRequested(call, sent), FALSE) EXCEPT
                          !.stakeSubmitted = @ \/ sent = "mined",
                          !.pc = "sendTypedTransaction"]
            /\ UNCHANGED <<ownerOf, tokensStaked>>
  /\ UNCHANGED <<isApprovedForAll, getApproved, staked_nfts, runs, recorded>>

\* part_005:866-880 and 928-930: the typed send. A decode error is raised
\* whether or not the transaction went through.
sendTypedTransaction ==
  /\ call.pc = "sendTypedTransaction"
  /\ \E sent \in {"mined", "mined, decode error", "decode error", "User denied", "error"} :
       IF sent \in {"mined", "mined, decode error"} /\ CanStake(call.tokenId)
       THEN /\ StakeMined(call.tokenId)
            /\ call' = IF sent = "mined"
                       THEN [StakeRequested(call, sent) EXCEPT
                                         !.stakeSubmitted = TRUE, !.stakeMined = TRUE,
                                         !.transactionHash = TxHash("stake", 0),
                                         !.pc = "waitForTransactionReceiptSafe"]
                       ELSE [Noted(StakeRequested(call, sent), FALSE) EXCEPT
                                         !.stakeSubmitted = TRUE, !.stakeMined = TRUE,
                                         !.decodeError = TRUE, !.pc = "scanRecentBlocks"]
       ELSE /\ call' = IF sent = "decode error"
                       THEN [Noted(StakeRequested(call, sent), FALSE) EXCEPT
                               !.stakeSubmitted = TRUE,
                               !.decodeError = TRUE, !.pc = "scanRecentBlocks"]
                       ELSE TxError([Noted(StakeRequested(call, sent), FALSE) EXCEPT
                                       !.stakeSubmitted = @ \/ sent = "mined"])
            /\ UNCHANGED <<ownerOf, tokensStaked>>
  /\ UNCHANGED <<isApprovedForAll, getApproved, staked_nfts, runs, recorded>>

\* part_005:882-900 and 920-927: the scan of the three latest blocks for a
\* transaction from the wallet to the staking contract
scanRecentBlocks ==
  /\ call.pc = "scanRecentBlocks"
  /\ \E found \in {"stake", "other", "none", "error"} :
       /\ found = "stake" => call.stakeMined
       /\ call' =
            IF found = "error" THEN TxError(call)
            ELSE IF found = "none" THEN [call EXCEPT !.pc = "ownershipCheck"]
            ELSE [call EXCEPT !.transactionHash = TxHash(found, 0),
                              !.pc = "waitForTransactionReceiptSafe"]
  /\ UNCHANGED <<ownerOf, isApprovedForAll, getApproved, tokensStaked, staked_nfts, runs, recorded>>

\* part_005:902-927
ownershipCheck ==
  /\ call.pc = "ownershipCheck"
  /\ \E ok \in BOOLEAN :
       call' =
         IF ok /\ ownerOf[call.tokenId] = "staking"
         THEN [OwnerRead(call, ok) EXCEPT
                           !.sawStakingOwner = TRUE,
                           !.transactionHash = TxHash("success_via_ownership_check", 0),
                           !.pc = "waitForTransactionReceiptSafe"]
         ELSE TxError(OwnerRead(call, ok))
  /\ UNCHANGED <<ownerOf, isApprovedForAll, getApproved, tokensStaked, staked_nfts, runs, recorded>>

\* part_005:951-978 with part_005:2130-2158. No receipt exists for the
\* placeholder hash, so that wait ends in the timeout.
waitForTransactionReceiptSafe ==
  /\ call.pc = "waitForTransactionReceiptSafe"
  /\ \E receipt \in {"success", "failed", "timeout"} :
       /\ call.transactionHash.tag = "success_via_ownership_check" => receipt = "timeout"
       /\ call.transactionHash.tag = "stake" => receipt # "failed"
       /\ call' =
            IF receipt = "success"
            THEN [call EXCEPT !.receiptStatus = receipt, !.pc = "recordStake"]
            ELSE Failed([Noted(call, FALSE) EXCEPT !.receiptStatus = receipt])
  /\ UNCHANGED <<ownerOf, isApprovedForAll, getApproved, tokensStaked, staked_nfts, runs, recorded>>

\* part_005:980-1046
recordStake ==
  /\ call.pc = "recordStake"
  /\ \E resolved \in BOOLEAN, stored \in BOOLEAN :
       /\ staked_nfts' = recordOnchainStakingForTracking(
                           staked_nfts, call.nftId, call.transactionHash, resolved, stored)
       /\ call' = [Noted(call, resolved /\ stored) EXCEPT
                     !.pc = "done", !.success = TRUE, !.stakingSource = "onchain"]
  /\ UNCHANGED <<ownerOf, isApprovedForAll, getApproved, tokensStaked, runs, recorded>>

StakeNext ==
  \/ walletActivity /\ StakeOnly
  \/ stakeNFTOnChain /\ StakeOnly
  \/ checkAlreadyStaked /\ StakeOnly
  \/ verifyOwnership /\ StakeOnly
  \/ approvalConnectivity /\ StakeOnly
  \/ approvalReadAll /\ StakeOnly
  \/ approvalReadOne /\ StakeOnly
  \/ validateStakingRequirements /\ StakeOnly
  \/ validateContractState /\ StakeOnly
  \/ preTransactionOwnership /\ StakeOnly
  \/ preTransactionApproval /\ StakeOnly
  \/ performAutomaticApproval /\ StakeOnly
  \/ verifyAutomaticApproval /\ StakeOnly
  \/ sendRawTransaction /\ StakeOnly
  \/ sendTypedTransaction /\ StakeOnly
  \/ scanRecentBlocks /\ StakeOnly
  \/ ownershipCheck /\ StakeOnly
  \/ waitForTransactionReceiptSafe /\ StakeOnly
  \/ recordStake /\ StakeOnly

-----------------------------------------------------------------------------
(* Reconciliation of the staked_nfts table with the staking contract *)

\* The token ids of a set in ascending order, as getStakeInfo lists them
RECURSIVE Ascending(_)
Ascending(tokens) ==
  IF tokens = {} THEN <<>>
  ELSE LET least == CHOOSE t \in tokens : \A u \in tokens : t <= u
       IN <<least>> \o Ascending(tokens \ {least})

\* part_005:1677-1706: a failed read yields the empty list
getStakeInfo(ok) == IF ok THEN Ascending(tokensStaked) ELSE <<>>

\* A user stakes a token directly against the staking contract
stakeDirectly(t) ==
  /\ ownerOf[t] = "wallet"
  /\ StakeMined(t)
  /\ UNCHANGED <<call, isApprovedForAll, getApproved, staked_nfts, runs, recorded>>

Finished(run) == [run EXCEPT !.pc = "done", !.stakedNFTs = <<>>, !.existing = {}]

\* part_005:1711-1721
recoverOnchainStakedNFTs(r) ==
  /\ runs[r].pc = "idle"
  /\ \E ok \in BOOLEAN :
       LET stakedNFTs == getStakeInfo(ok)
           read == [runs[r] EXCEPT !.kind = "recover",
                                   !.stakeInfo = IF ok THEN "read" ELSE "failed"]
       IN runs' = [runs EXCEPT ![r] =
            IF Len(stakedNFTs) = 0 THEN Finished([read EXCEPT !.foundNone = TRUE])
            ELSE [read EXCEPT !.pc = "recoverSelect", !.stakedNFTs = stakedNFTs]]
  /\ UNCHANGED <<call, ownerOf, isApprovedForAll, getApproved, tokensStaked, staked_nfts, recorded>>

\* part_005:1728-1743: a fetch error is logged and leaves the set empty
recoverSelect(r) ==
  /\ runs[r].pc = "recoverSelect"
  /\ \E fetchError \in BOOLEAN :
       runs' = [runs EXCEPT ![r].pc = "recoverToken",
                            ![r].existing =
                               IF fetchError THEN {}
                               ELSE {StripOnchainPrefix(row.nft_id) :
                                       row \in {s \in staked_nfts :
                                                  /\ s.wallet_address = WalletAddress
                                                  /\ s.staking_source = "onchain"}}]
  /\ UNCHANGED <<call, ownerOf, isApprovedForAll, getApproved, tokensStaked, staked_nfts, recorded>>

\* part_005:1746-1784: one iteration of the loop over the staked tokens
recoverToken(r) ==
  /\ runs[r].pc = "recoverToken"
  /\ LET tokenId == Head(runs[r].stakedNFTs)
         rest    == Tail(runs[r].stakedNFTs)
     IN /\ IF NftId("", tokenId) \in runs[r].existing
           THEN UNCHANGED staked_nfts
           ELSE \E detailsRead \in BOOLEAN, insertError \in BOOLEAN :
                  staked_nfts' =
                    IF detailsRead /\ ~insertError
                    THEN staked_nfts \cup
                           {StakeRecord(OnchainNftId(tokenId), "Common",
                                        TxHash("recovered", r))}
                    ELSE staked_nfts
        /\ runs' = [runs EXCEPT ![r] =
                      IF rest = <<>> THEN Finished(@) ELSE [@ EXCEPT !.stakedNFTs = rest]]
  /\ UNCHANGED <<call, ownerOf, isApprovedForAll, getApproved, tokensStaked, recorded>>

\* part_005:2022-2032 with getStakedNFTsOnChain, part_005:1799-1830
syncExistingStakedNFTs(r) ==
  /\ runs[r].pc = "idle"
  /\ \E ok \in BOOLEAN :
       LET stakedNFTs == getStakeInfo(ok)
           read == [runs[r] EXCEPT !.kind = "sync",
                                   !.stakeInfo = IF ok THEN "read" ELSE "failed"]
       IN runs' = [runs EXCEPT ![r] =
            IF Len(stakedNFTs) = 0 THEN Finished([read EXCEPT !.foundNone = TRUE])
            ELSE [read EXCEPT !.pc = "syncTracked", !.stakedNFTs = stakedNFTs]]
  /\ UNCHANGED <<call, ownerOf, isApprovedForAll, getApproved, tokensStaked, staked_nfts, recorded>>

\* EnhancedStakingService.getStakedNFTs: the ids of the wallet's stake records
getStakedNFTs == {row.nft_id : row \in {s \in staked_nfts : s.wallet_address = WalletAddress}}

RECURSIVE Untracked(_, _)
Untracked(stakedNFTs, trackedTokenIds) ==
  IF stakedNFTs = <<>> THEN <<>>
  ELSE IF NftId("", extractTokenId(OnchainNftId(Head(stakedNFTs)))) \in trackedTokenIds
       THEN Untracked(Tail(stakedNFTs), trackedTokenIds)
       ELSE <<Head(stakedNFTs)>> \o Untracked(Tail(stakedNFTs), trackedTokenIds)

\* part_005:2034-2056: a failed read of the tracked records ends the sync
syncTracked(r) ==
  /\ runs[r].pc = "syncTracked"
  /\ \E ok \in BOOLEAN :
       LET trackedTokenIds ==
             {StripOnchainPrefix(id) : id \in {i \in getStakedNFTs : i.prefix = "onchain_"}}
           untracked == Untracked(runs[r].stakedNFTs, trackedTokenIds)
       IN runs' = [runs EXCEPT ![r] =
            IF ~ok \/ untracked = <<>> THEN Finished(@)
            ELSE [@ EXCEPT !.pc = "syncRecord", !.stakedNFTs = untracked]]
  /\ UNCHANGED <<call, ownerOf, isApprovedForAll, getApproved, tokensStaked, staked_nfts, recorded>>

Recorded(tokenId, stored) ==
  IF stored /\ recorded[tokenId] < 2
  THEN [recorded EXCEPT ![tokenId] = @ + 1] ELSE recorded

\* part_005:2058-2105: one iteration of the loop over the untracked NFTs
syncRecord(r) ==
  /\ runs[r].pc = "syncRecord"
  /\ LET tokenId == Head(runs[r].stakedNFTs)
         rest    == Tail(runs[r].stakedNFTs)
     IN /\ \E resolved \in BOOLEAN, stored \in BOOLEAN :
             /\ staked_nfts' = recordOnchainStakingForTracking(
                                 staked_nfts, OnchainNftId(tokenId),
                                 TxHash("sync_existing", 0), resolved, stored)
             /\ recorded' = Recorded(tokenId, stored)
        /\ runs' = [runs EXCEPT ![r] =
                      IF rest = <<>> THEN Finished(@) ELSE [@ EXCEPT !.stakedNFTs = rest]]
  /\ UNCHANGED <<call, ownerOf, isApprovedForAll, getApproved, tokensStaked>>

\* part_005:1009-1014: the record that stakeNFTOnChain makes of a mined stake,
\* under either id by which its caller names the token
recordMinedStake ==
  /\ \E tokenId \in tokensStaked, prefix \in {"", "onchain_"},
        resolved \in BOOLEAN, stored \in BOOLEAN :
       /\ staked_nfts' = recordOnchainStakingForTracking(
                           staked_nfts, NftId(prefix, tokenId),
                           TxHash("stake", 0), resolved, stored)
       /\ recorded' = Recorded(tokenId, stored)
  /\ UNCHANGED <<call, ownerOf, isApprovedForAll, getApproved, tokensStaked, runs>>

RecordNext ==
  \/ \E t \in StakeTokens : stakeDirectly(t) /\ StakeOnly
  \/ recordMinedStake /\ StakeOnly
  \/ \E r \in Runs :
       \/ syncExistingStakedNFTs(r) /\ StakeOnly
       \/ syncTracked(r) /\ StakeOnly
       \/ syncRecord(r) /\ StakeOnly

ReconNext ==
  \/ RecordNext
  \/ \E r \in Runs :
       \/ recoverOnchainStakedNFTs(r) /\ StakeOnly
       \/ recoverSelect(r) /\ StakeOnly
       \/ recoverToken(r) /\ StakeOnly

-----------------------------------------------------------------------------
(* On-chain unstaking: src/unnamed/part_005, unstakeNFTOnChain *)

IdleWithdrawal ==
  [pc |-> "idle", tokenId |-> 0, txHash |-> NoTx, success |-> FALSE,
   \* observations
   withdrawMined |-> FALSE, decodeError |-> FALSE, receiptStatus |-> "none",
   freshRead |-> FALSE, sentUnread |-> FALSE]

UnstakeInit ==
  /\ withdrawal = IdleWithdrawal
  /\ unstakedAt = {}

\* The catch block of unstakeNFTOnChain, part_005:1640-1667
WithdrawFailed(w) == [w EXCEPT !.pc = "done", !.success = FALSE]

\* part_005:1473-1538: the call, made once the wallet's stake call is over.
\* The getStakeInfo read is not guarded: a failed read ends the call. Every
\* failure of the gas estimation has a fallback.
unstakeNFTOnChain ==
  /\ withdrawal.pc = "idle"
  /\ call.pc = "done"
  /\ \E tokenId \in {call.tokenId}, ok \in BOOLEAN :
       LET w == [withdrawal EXCEPT !.tokenId = tokenId, !.freshRead = ok]
       IN withdrawal' = IF ok /\ tokenId \in tokensStaked
                        THEN [w EXCEPT !.pc = "sendRawWithdraw"]
                        ELSE WithdrawFailed(w)
  /\ UNCHANGED <<unstakedAt, stakeVars>>

\* Observation: a withdraw transaction is handed to the wallet. Unless the
\* user turns it down the transaction may have gone out, whatever the send
\* returns.
WithdrawRequested(w, sent) ==
  [w EXCEPT !.sentUnread = @ \/ ~w.freshRead,
            !.freshRead = @ /\ sent = "User denied"]

\* The effect of a mined withdraw([tokenId])
WithdrawMined(tokenId) ==
  /\ ownerOf' = [ownerOf EXCEPT ![tokenId] = "wallet"]
  /\ tokensStaked' = tokensStaked \ {tokenId}

\* part_005:1546-1565: the raw send; every failure falls back to the typed send
sendRawWithdraw ==
  /\ withdrawal.pc = "sendRawWithdraw"
  /\ \E sent \in {"mined", "User denied", "error"} :
       IF sent = "mined" /\ withdrawal.tokenId \in tokensStaked
       THEN /\ WithdrawMined(withdrawal.tokenId)
            /\ withdrawal' = [WithdrawRequested(withdrawal, sent) EXCEPT
                                 !.withdrawMined = TRUE,
                                 !.txHash = TxHash("withdraw", 0),
                                 !.pc = "waitForWithdrawReceipt"]
       ELSE /\ withdrawal' = [WithdrawRequested(withdrawal, sent) EXCEPT
                                 !.pc = "sendTypedWithdraw"]
            /\ UNCHANGED <<ownerOf, tokensStaked>>
  /\ UNCHANGED <<unstakedAt, call, isApprovedForAll, getApproved, staked_nfts, runs, recorded>>

\* part_005:1566-1577 and 1594-1596: the typed send. Only an error whose
\* message holds 'Parameter decoding error' is looked into.
sendTypedWithdraw ==
  /\ withdrawal.pc = "sendTypedWithdraw"
  /\ \E sent \in {"mined", "mined, Parameter decoding error",
                   "Parameter decoding error", "User denied", "error"} :
       LET mined == /\ sent \in {"mined", "mined, Parameter decoding error"}
                    /\ withdrawal.tokenId \in tokensStaked
           w     == [WithdrawRequested(withdrawal, sent) EXCEPT !.withdrawMined = @ \/ mined]
       IN /\ IF mined THEN WithdrawMined(withdrawal.tokenId)
                       ELSE UNCHANGED <<ownerOf, tokensStaked>>
          /\ withdrawal' =
               IF mined /\ sent = "mined"
               THEN [w EXCEPT !.txHash = TxHash("withdraw", 0),
                              !.pc = "waitForWithdrawReceipt"]
               ELSE IF sent \in {"mined, Parameter decoding error", "Parameter decoding error"}
               THEN [w EXCEPT !.decodeError = TRUE, !.pc = "scanLatestBlock"]
               ELSE WithdrawFailed(w)
  /\ UNCHANGED <<unstakedAt, call, isApprovedForAll, getApproved, staked_nfts, runs, recorded>>

\* part_005:1578-1593: the latest block alone is searched for a transaction
\* from the wallet to the staking contract; the withdrawal is in it or in an
\* earlier block
scanLatestBlock ==
  /\ withdrawal.pc = "scanLatestBlock"
  /\ \E found \in {"withdraw", "other", "none", "error"} :
       /\ found = "withdraw" => withdrawal.withdrawMined
       /\ withdrawal' =
            IF found \in {"none", "error"} THEN WithdrawFailed(withdrawal)
            ELSE [withdrawal EXCEPT !.txHash = TxHash(found, 0),
                                    !.pc = "waitForWithdrawReceipt"]
  /\ UNCHANGED <<unstakedAt, stakeVars>>

\* A receipt wait that takes the timeout for a confirmation
waitForWithdrawReceipt_TimeoutConfirms ==
  /\ withdrawal.pc = "waitForWithdrawReceipt"
  /\ withdrawal' = [withdrawal EXCEPT !.receiptStatus = "timeout",
                                      !.pc = "updateOffchainStakingRecord"]
  /\ UNCHANGED <<unstakedAt, stakeVars>>
\* part_005:1600-1608 with waitForTransactionReceiptSafe, part_005:2130-2158
waitForWithdrawReceipt ==
  /\ withdrawal.pc = "waitForWithdrawReceipt"
  /\ \E receipt \in {"success", "failed", "timeout"} :
       /\ withdrawal.txHash.tag = "withdraw" => receipt # "failed"
       /\ withdrawal' =
            IF receipt = "success"
            THEN [withdrawal EXCEPT !.receiptStatus = receipt,
                                    !.pc = "updateOffchainStakingRecord"]
            ELSE WithdrawFailed([withdrawal EXCEPT !.receiptStatus = receipt])
  /\ UNCHANGED <<unstakedAt, stakeVars>>

\* part_005:1430-1435
PossibleIds(tokenId) ==
  <<NftId("onchain_", tokenId), NftId("blockchain_", tokenId), NftId("", tokenId)>>

\* EnhancedStakingService.unstakeNFT: succeeds for the id of a stake record of
\* the wallet, which it marks as unstaked and keeps
unstakeNFT(id) ==
  \E row \in staked_nfts : row.wallet_address = WalletAddress /\ row.nft_id = id

\* part_005:1610-1638 with updateOffchainStakingRecord, part_005:1425-1468:
\* the first id under which unstakeNFT succeeds; every error is swallowed
updateOffchainStakingRecord ==
  /\ withdrawal.pc = "updateOffchainStakingRecord"
  /\ \E reached \in BOOLEAN :
       LET ids  == PossibleIds(withdrawal.tokenId)
           hits == {i \in 1..Len(ids) : unstakeNFT(ids[i])}
       IN unstakedAt' =
            IF reached /\ hits # {}
            THEN unstakedAt \cup {ids[CHOOSE i \in hits : \A j \in hits : i <= j]}
            ELSE unstakedAt
  /\ withdrawal' = [withdrawal EXCEPT !.pc = "done", !.success = TRUE]
  /\ UNCHANGED stakeVars

\* A wallet stakes a token and then unstakes it
UnstakeNext ==
  \/ StakeNext
  \/ unstakeNFTOnChain /\ UnstakeOnly
  \/ sendRawWithdraw /\ UnstakeOnly
  \/ sendTypedWithdraw /\ UnstakeOnly
  \/ scanLatestBlock /\ UnstakeOnly
  \/ waitForWithdrawReceipt /\ UnstakeOnly
  \/ updateOffchainStakingRecord /\ UnstakeOnly

-----------------------------------------------------------------------------
(* Specifications *)

Init == ViewInit /\ BurnInit /\ StakeInit /\ UnstakeInit

SpecView == Init /\ [][ViewNext]_vars

SpecBurn == Init /\ [][BurnNext]_vars

SpecStake == Init /\ [][StakeNext]_vars

\* Every await of a stakeNFTOnChain call in progress returns or throws: the
\* RPC calls settle and the receipt wait has its own timeout
CallStep ==
  \/ checkAlreadyStaked \/ verifyOwnership \/ approvalConnectivity
  \/ approvalReadAll \/ approvalReadOne \/ validateStakingRequirements
  \/ validateContractState \/ preTransactionOwnership \/ preTransactionApproval
  \/ performAutomaticApproval \/ verifyAutomaticApproval
  \/ sendRawTransaction \/ sendTypedTransaction \/ scanRecentBlocks
  \/ ownershipCheck \/ waitForTransactionReceiptSafe \/ recordStake

SpecStakeFair == SpecStake /\ WF_vars(CallStep /\ StakeOnly)

SpecRecord == Init /\ [][RecordNext]_vars

SpecRecon == Init /\ [][ReconNext]_vars

SpecUnstake == Init /\ [][UnstakeNext]_vars

-----------------------------------------------------------------------------
(* Claims about the optimistic view cache *)

\* C4: in every reachable view state every asset is staked if and only if
\* its stakingSource is not 'none'.
C4_StateExclusivity ==
  \A i \in 1..Len(allNFTs) :
    allNFTs[i].isStaked <=> (allNFTs[i].stakingSource # "none")

\* C5: optimisticStake directly followed by revertOptimisticUpdate leaves the
\* view, and so every affected asset's status, isStaked, stakingSource and
\* stake timestamp, exactly as it was before the stake.
C5_RollbackRestores ==
  preStake.phase = "reverted" => allNFTs = preStake.view

\* C5 witness: a stake that changed an unstaked asset has been reverted.
C5_Witness ==
  /\ preStake.phase = "reverted"
  /\ \E i \in 1..Len(allNFTs) :
       /\ allNFTs[i].id \in preStake.ids
       /\ ~allNFTs[i].isStaked
       /\ allNFTs[i].stakeTimestamp = 0

\* C6: at most one optimistic mutation per asset is outstanding at any time
\* (a second one on the same asset is rejected).
C6_OneOutstandingMutation ==
  \A id \in ViewIds : outstanding[id] <= 1

\* C1: when every one of the NumBurns concurrent burns has ended in success,
\* against a pool that held exactly NumBurns undistributed entries of the
\* result rarity, the burns were granted NumBurns distinct pool entries: no
\* pool entry is granted to two burns.
C1_DistinctPoolEntries ==
  (\A p \in BurnTasks : burn[p].pc = "done" /\ burn[p].success)
    => Cardinality({burn[p].cidPoolNFT : p \in BurnTasks}) = NumBurns

\* C3: a burn whose on-chain transfer failed has allocated no pool entry, has
\* inserted no result row for its wallet and has deleted none of the off-chain
\* rows of its selection.
C3_FailedTransferTouchesNothingOffchain ==
  \A p \in BurnTasks :
    burn[p].transferFailed =>
      /\ burn[p].cidPoolNFT = 0
      /\ \A c \in PoolIds : cidPool[c].distributed_to_wallet # p
      /\ [nft_id |-> <<p, 0>>, wallet_address |-> p] \notin distributionLog
      /\ \A id \in Ids(OffchainOf(burn[p].nfts)) :
           [nft_id |-> id, wallet_address |-> p] \in distributionLog

\* C3 witness: a mixed burn has ended on a failed transfer after an earlier
\* burn of another wallet went through
C3_Witness ==
  \E p, q \in BurnTasks :
    /\ burn[p].transferFailed /\ burn[p].pc = "done" /\ ~burn[p].success
    /\ burn[p].burnStrategy = "mixed"
    /\ burn[q].pc = "done" /\ burn[q].success

\* C2: a stakeNFTOnChain call whose stake write raised a decode error and
\* whose later ownerOf read returned the staking contract ends in success.
C2_DecodeErrorWithStakedOwnerSucceeds ==
  (call.pc = "done" /\ call.decodeError /\ call.sawStakingOwner) => call.success

\* C7: however many recoverOnchainStakedNFTs runs have acted, in sequence or
\* interleaved, no on-chain token of the wallet has more than one stake record
\* of source 'onchain'.
C7_OneRecordPerStakedToken ==
  \A t \in StakeTokens : Cardinality(StakeRecordsOf(t)) <= 1

\* C8: a token whose stake has been recorded, once or repeatedly, through
\* recordOnchainStakingForTracking or through syncExistingStakedNFTs has
\* exactly one stake record for the wallet and source 'onchain'.
C8_RecordingIsIdempotent ==
  \A t \in StakeTokens :
    Cardinality(StakeRecordsOf(t)) = IF recorded[t] = 0 THEN 0 ELSE 1

\* C8 witness: the same stake has been stored twice and one record remains
C8_Witness ==
  \E t \in StakeTokens : recorded[t] = 2 /\ Cardinality(StakeRecordsOf(t)) = 1

\* C9: checkAndHandleApproval has not returned true while its last successful
\* approval reads say that the staking contract is approved neither for all
\* tokens nor for the token.
C9_NoTrueWhileReadsSayNotApproved ==
  call.approvalReturned =>
    ~(call.readApprovedForAll = "notApproved" /\ call.readGetApproved # "approved")

\* The rarity of each token's metadata under the name the table uses for it
ExpectedRarity == [t \in StakeTokens |-> IF t = 1 THEN "Rare" ELSE "Common"]

\* C10: for a token the wallet owns, unstaked and without approval at the
\* start of stakeNFTOnChain: a stake is submitted only after the approval
\* transaction went through; a stake record exists only after a receipt with
\* success status; and when every call succeeded the record carries source
\* 'onchain' and the token's rarity and the call ends in success with
\* stakingSource 'onchain'.
C10_HappyPathOrder ==
  LET rows == StakeRecordsOf(call.tokenId)
  IN (call.ownedAtStart /\ call.unapprovedAtStart) =>
       /\ call.stakeSubmitted => (call.approvalSent /\ isApprovedForAll)
       /\ rows # {} => call.receiptStatus = "success"
       /\ call.allCallsOk =>
            /\ \A row \in rows : row.nft_rarity = ExpectedRarity[call.tokenId]
            /\ call.pc = "done" =>
                 /\ call.success /\ call.stakingSource = "onchain"
                 /\ Cardinality(rows) = 1

\* C10 witness: such a call has ended in success with every call succeeding
C10_Witness ==
  /\ call.pc = "done" /\ call.success
  /\ call.ownedAtStart /\ call.unapprovedAtStart /\ call.allCallsOk
  /\ call.approvalSent /\ call.stakeSubmitted
  /\ StakeRecordsOf(call.tokenId) # {}

\* C21: every optimistic mutation of a non-empty view (stake, unstake, claim
\* start, claim, burn, single and batch update) stores the view it found as
\* the snapshot and sets the dirty flag; clearOptimisticUpdates clears the
\* flag; revertOptimisticUpdate with a snapshot at hand puts the snapshot back
\* as the view and clears the flag.
C21_MutationsSnapshotAndMarkDirty ==
  [][ /\ ( /\ Len(allNFTs) > 0
           /\ \/ optimisticStake \/ optimisticUnstake \/ optimisticClaimStart
              \/ optimisticClaim \/ optimisticBurn
              \/ updateNFTOptimistically \/ batchUpdateNFTs )
         => (backupState' = allNFTs /\ hasOptimisticUpdates')
      /\ clearOptimisticUpdates => ~hasOptimisticUpdates'
      /\ (revertOptimisticUpdate /\ Len(backupState) > 0)
         => (allNFTs' = backupState /\ ~hasOptimisticUpdates') ]_vars

\* C23: in every reachable view state an asset whose status is 'onchain' has
\* the stake source 'onchain' or 'none', never 'offchain'.
C23_OnchainAssetNeverOffchainStaked ==
  \A i \in 1..Len(allNFTs) :
    allNFTs[i].status = "onchain" => allNFTs[i].stakingSource \in {"onchain", "none"}

\* What a view shows of one asset
EntryOf(view, id) == {view[i] : i \in {j \in 1..Len(view) : view[j].id = id}}

\* C27: while optimistic mutations of different operations are outstanding on
\* two different assets (the last operation did not name the first asset), a
\* revertOptimisticUpdate called for the failure of the operation on the first
\* leaves what the view shows of the other, its outstanding mutation included,
\* as it was.
C27_RevertLeavesOtherAssetAlone ==
  [][ \A a \in ViewIds, b \in ViewIds :
        ( /\ a # b
          /\ outstanding[a] >= 1
          /\ outstanding[b] >= 1
          /\ a \notin lastMutated
          /\ revertOptimisticUpdate )
        => EntryOf(allNFTs', b) = EntryOf(allNFTs, b) ]_vars

\* C28: no snapshot survives a completed loadNFTData: once a load has
\* completed backupState is empty, so that a later revertOptimisticUpdate
\* cannot put a view older than the load back.
C28_NoSnapshotSurvivesLoad ==
  [][ (loadNFTData \/ loadNFTData2) => backupState' = <<>> ]_vars

\* C29: after a loadNFTData in which both store reads succeeded, the assets of
\* the view are exactly the active assets the off-chain store returned
\* together with the assets the on-chain load returned, also when the
\* off-chain store returned none.
C29_ViewIsUnionOfStores ==
  [][ \A offchainData \in OffchainLoads, onchainData \in OnchainLoads :
        LoadCompletes(offchainData, Fulfilled(onchainData))
        => Ids(allNFTs') = Ids(OffchainToContext(offchainData)) \cup Ids(onchainData) ]_vars

-----------------------------------------------------------------------------
(* Claims about the hybrid burn service *)

\* The rules a selection matches as a whole: every asset has the rule's
\* minRarity and the size of the selection is the rule's requiredAmount
WholeMatches(nfts) ==
  {r \in 1..Len(BurnRules) :
     /\ Len(nfts) = BurnRules[r].requiredAmount
     /\ \A i \in 1..Len(nfts) : nfts[i].rarity = BurnRules[r].minRarity}

\* The on-chain tokens of task p's selection that sit at the burn address
BurnedOf(p) == {id \in Ids(OnchainOf(burn[p].nfts)) : tokenOwner[id] = "burn"}

\* The off-chain assets of task p's selection whose row is gone
DeletedOf(p) ==
  {id \in Ids(OffchainOf(burn[p].nfts)) :
     [nft_id |-> id, wallet_address |-> p] \notin distributionLog}

ResultRow(p) == [nft_id |-> <<p, 0>>, wallet_address |-> p]

BurnTransactionsOf(p) == {t \in burnTransactions : t.wallet_address = p}

C12_OnlyWholeMatchesAccepted ==
  \A p \in BurnTasks :
    (burn[p].pc # "idle" /\ Cardinality(WholeMatches(burn[p].nfts)) # 1) =>
      /\ ~burn[p].success
      /\ BurnedOf(p) = {}
      /\ DeletedOf(p) = {}

\* C13: for a selection that contains a staked asset no on-chain token is
\* burned, no off-chain row is deleted and the burn does not succeed.
C13_StakedSelectionRejected ==
  \A p \in BurnTasks :
    (burn[p].pc # "idle" /\ \E i \in 1..Len(burn[p].nfts) : burn[p].nfts[i].isStaked) =>
      /\ ~burn[p].success
      /\ BurnedOf(p) = {}
      /\ DeletedOf(p) = {}

\* C16: a burn does not end in failure on its first pool allocation attempt
\* once on-chain tokens of its selection are burned or off-chain rows of it
\* are deleted: the allocation is tried again.
C16_AllocationRetried ==
  \A p \in BurnTasks :
    ( /\ burn[p].pc = "done" /\ ~burn[p].success
      /\ burn[p].poolAttempts > 0
      /\ BurnedOf(p) \cup DeletedOf(p) # {} ) =>
      burn[p].poolAttempts > 1

\* The token ids a returned result lists as burned
ReportedTokenIds(result) ==
  {id \in OnchainTokenIds :
     "burnedTokenIds" \in DOMAIN result /\ id \in result.burnedTokenIds}

\* C17: the result of a burn that ended on a failed transfer lists every
\* token of the selection whose transfer went through before it.
C17_PartialFailureNamesBurnedTokens ==
  \A p \in BurnTasks :
    (burn[p].pc = "done" /\ burn[p].transferFailed) =>
      BurnedOf(p) \subseteq ReportedTokenIds(burn[p].result)

\* C24: a burn that has returned success has written exactly one
\* burn_transactions row, and a burn that has returned failure has written
\* none.
C24_OneAuditRowPerSuccessfulBurn ==
  \A p \in BurnTasks :
    burn[p].pc = "done" =>
      IF burn[p].result.success
      THEN Cardinality(BurnTransactionsOf(p)) = 1
      ELSE BurnTransactionsOf(p) = {}

\* C26: when a burn has returned success with its result asset, the pool
\* entry the asset was drawn from has is_distributed = true.
C26_GrantedEntryIsDistributed ==
  \A p \in BurnTasks :
    (burn[p].pc = "done" /\ burn[p].result.success) =>
      cidPool[burn[p].cidPoolNFT].is_distributed

-----------------------------------------------------------------------------
(* Claims about the on-chain staking service *)

\* C14: once the user has rejected a signature request of a stakeNFTOnChain
\* call, for the approval or for the stake, the call asks the wallet for no
\* further signature, and it ends in failure.
C14_UserRejectionIsTerminal ==
  /\ ~call.requestAfterDenial
  /\ (call.userDenied /\ call.pc = "done") => ~call.success

\* C20: stakeNFTOnChain hands no stake transaction to the wallet while its
\* latest successful ownerOf read returned another address than the wallet,
\* and a call that ends with such a read as its latest ends in failure with
\* no stake record for the token.
C20_NoStakeForUnownedToken ==
  /\ ~call.stakeSentUnowned
  /\ (call.pc = "done" /\ call.lastOwnerRead \notin {"unread", "wallet"}) =>
       /\ ~call.success
       /\ StakeRecordsOf(call.tokenId) = {}

\* C20 witness: the check before the second attempt found the token in the
\* staking contract after the first attempt's stake was mined, and the call
\* ended in failure without a second stake
C20_Witness ==
  /\ call.pc = "done" /\ ~call.success
  /\ call.lastOwnerRead = "staking"
  /\ call.stakeMined /\ call.attempt = MaxTxRetries
  /\ call.transactionHash = NoTx

\* C15: a run of recoverOnchainStakedNFTs or syncExistingStakedNFTs whose
\* read of the wallet's stake info failed has not returned as a run that
\* found no staked NFTs: the failed read is told apart from an empty set.
C15_FailedReadIsNotEmpty ==
  \A r \in Runs : runs[r].stakeInfo = "failed" => ~runs[r].foundNone

\* C18: an unstakeNFTOnChain call whose withdraw write raised a decode error
\* and that ended in failure without reaching the receipt wait has left the
\* token staked on chain: when the token is no longer staked, the call does
\* not report that failure.
C18_DecodeErrorFailsOnlyIfStillStaked ==
  ( /\ withdrawal.pc = "done" /\ ~withdrawal.success
    /\ withdrawal.decodeError /\ withdrawal.receiptStatus = "none" ) =>
    withdrawal.tokenId \in tokensStaked

\* C19: a stake record exists only once the stake call has seen a receipt
\* with success status, and a record is marked as unstaked only once the
\* unstake call has seen one; a call whose receipt wait timed out has ended
\* in failure.
C19_NoMutationWithoutReceipt ==
  /\ StakeRecordsOf(call.tokenId) # {} => call.receiptStatus = "success"
  /\ call.receiptStatus = "timeout" => (call.pc = "done" /\ ~call.success)
  /\ unstakedAt # {} => withdrawal.receiptStatus = "success"
  /\ withdrawal.receiptStatus = "timeout" =>
       (withdrawal.pc = "done" /\ ~withdrawal.success)

\* C19 witness: the receipt wait of a mined withdrawal has timed out while
\* the token has a stake record, and the record is not marked
C19_Witness ==
  /\ withdrawal.receiptStatus = "timeout" /\ withdrawal.withdrawMined
  /\ call.success /\ StakeRecordsOf(call.tokenId) # {}
  /\ unstakedAt = {}

\* C25: when stakeNFTOnChain has returned success, the staked_nfts table holds
\* a record of the wallet for the token with the source 'onchain'.
C25_SuccessfulStakeIsTracked ==
  (call.pc = "done" /\ call.success) => StakeRecordsOf(call.tokenId) # {}

\* C30: a stakeNFTOnChain call never makes more than MaxTxRetries transaction
\* attempts nor more than MaxApprovalRetries approval attempts, and every call
\* that has started ends with a success or a failure result.
C30_RetriesBoundedAndCallEnds ==
  /\ [](call.attempt <= MaxTxRetries /\ call.approvalAttempt < MaxApprovalRetries)
  /\ (call.pc # "idle") ~> (call.pc = "done")

\* C30 witness: a call has ended in failure after its last transaction attempt
\* failed.
C30_Witness ==
  /\ call.pc = "done"
  /\ ~call.success
  /\ call.attempt = MaxTxRetries
  /\ call.stakeSubmitted

\* C22: every stake transaction that stakeNFTOnChain hands to the wallet, raw
\* or typed, and every withdraw transaction that unstakeNFTOnChain hands to
\* the wallet comes after a read of the token's owner or stake state, with no
\* other transaction for the token handed over between the read and it.
C22_WriteFollowsFreshRead ==
  ~call.sentUnread /\ ~withdrawal.sentUnread

=============================================================================
